---- MODULE Spec2Model ----
(***************************************************************************)
(* Model of src/src/utils.py: the table-cleaning functions of the HDB      *)
(* resale-price project.                                                   *)
(*                                                                         *)
(* A table (pandas DataFrame) is a function from column names to columns,  *)
(* a column being a sequence of cell values, all of the same length.       *)
(* A cell value is a tagged record:                                        *)
(*   [k |-> "num", v |-> n]  a float or int; n counts 1/120ths of a unit,  *)
(*                           so that twelfths (months) and tenths (one     *)
(*                           decimal place) are both whole numbers         *)
(*   [k |-> "nan"]           the float NaN (pandas' missing value)         *)
(*   [k |-> "none"]          Python None                                   *)
(*   [k |-> "str", s |-> c]  a string, c its sequence of characters        *)
(*   [k |-> "date", y, m]    a Timestamp at the first day of month m       *)
(***************************************************************************)
EXTENDS Integers, Sequences, FiniteSets, TLC

VARIABLES df, df0, last, err, ret, arg

vars == <<df, df0, last, err, ret, arg>>

\* ------------------------------------------------------------- bounds
\* Largest number of rows of the tables whose rows are handled one by one.
MaxRows == 2
\* Largest number of rows of the tables handled as a whole (groups).
MaxGroupRows == 3

\* ------------------------------------------------------------- values
\* Units per 1.0: a twelfth is 10 units and a tenth is 12 units.
Scale == 12 * 10

Num(n) == [k |-> "num", v |-> n]
NaN == [k |-> "nan"]
None == [k |-> "none"]
Str(c) == [k |-> "str", s |-> c]
Date(y, m) == [k |-> "date", y |-> y, m |-> m]

IsNum(x) == x.k = "num"
IsStr(x) == x.k = "str"
\* pandas isna(): NaN and None are both missing values.
IsNull(x) == x.k \in {"nan", "none"}
\* isinstance(lease, (float, int)): NaN is a float.
IsFloatOrInt(x) == x.k \in {"num", "nan"}

\* The lease length of line 83 and of calculate_age_of_flat, and the cap of
\* convert_lease, in years.
LeaseYears == 99
CapYears == 99
FlatLeaseYears == 99

Min2(a, b) == IF a <= b THEN a ELSE b
Max2(a, b) == IF a >= b THEN a ELSE b

\* round(x, 1) on a value of n units: to the nearest tenth, a tie (which the
\* inputs of this model have only at exactly representable .25 and .75) going
\* to the even tenth, as Python's round() and numpy's around() both do.
Round1(n) ==
    LET q == n \div 12
        r == n % 12
    IN  IF r < 6 THEN 12 * q
        ELSE IF r > 6 THEN 12 * (q + 1)
        ELSE IF q % 2 = 0 THEN 12 * q ELSE 12 * (q + 1)

\* ------------------------------------------------------------- tables
Cols(t) == DOMAIN t
NRows(t) == Len(t[CHOOSE c \in DOMAIN t : TRUE])
Row(t, i) == [c \in DOMAIN t |-> t[c][i]]
\* df[name] = column: adds the column or replaces it.
SetCol(t, name, col) ==
    [c \in (DOMAIN t) \cup {name} |-> IF c = name THEN col ELSE t[c]]
\* The table made of the rows of t at the indices idx (a sequence), in order.
TakeRows(t, idx) == [c \in DOMAIN t |-> [j \in 1..Len(idx) |-> t[c][idx[j]]]]

\* ------------------------------------------------------------- strings
Digits == {"0", "1", "2", "3", "4", "5", "6", "7", "8", "9"}
DigitVal(c) ==
    CASE c = "0" -> 0 [] c = "1" -> 1 [] c = "2" -> 2 [] c = "3" -> 3
      [] c = "4" -> 4 [] c = "5" -> 5 [] c = "6" -> 6 [] c = "7" -> 7
      [] c = "8" -> 8 [] c = "9" -> 9

\* int(s) of a non-empty string of digits.
RECURSIVE ParseInt(_)
ParseInt(s) ==
    IF s = <<>> THEN 0
    ELSE 10 * ParseInt(SubSeq(s, 1, Len(s) - 1)) + DigitVal(s[Len(s)])

\* Whether the characters of lit stand in s from position i on.
HasLit(s, i, lit) ==
    /\ i + Len(lit) - 1 <= Len(s)
    /\ \A j \in 1..Len(lit) : s[i + j - 1] = lit[j]

\* The position after the longest run of digits of s that starts at i
\* (i itself when s has no digit there): the greedy match of \d+.
RECURSIVE DigitEnd(_, _)
DigitEnd(s, i) ==
    IF i <= Len(s) /\ s[i] \in Digits THEN DigitEnd(s, i + 1) ELSE i

\* ------------------------------------------------------------- errors
\* What a call yields when it raises instead of returning.
Raise(e) == [k |-> "raise", e |-> e]
IsRaise(x) == x.k = "raise"

\* ------------------------------------------------ standardize_remaining_lease
YEARS == <<" ", "y", "e", "a", "r", "s">>
YEARS_SP == YEARS \o <<" ">>
MONTHS == <<" ", "m", "o", "n", "t", "h", "s">>

\* re.match(r"(\d+) years (\d+) months", s): anchored at the start of s only.
\* Both literals begin with a space, so the greedy digit runs never give back.
MatchFull(s) ==
    LET e1 == DigitEnd(s, 1)
        d2 == e1 + Len(YEARS_SP)
        e2 == DigitEnd(s, d2)
    IN  /\ e1 > 1
        /\ HasLit(s, e1, YEARS_SP)
        /\ e2 > d2
        /\ HasLit(s, e2, MONTHS)
FullYears(s) == ParseInt(SubSeq(s, 1, DigitEnd(s, 1) - 1))
FullMonths(s) ==
    LET d2 == DigitEnd(s, 1) + Len(YEARS_SP)
    IN  ParseInt(SubSeq(s, d2, DigitEnd(s, d2) - 1))

\* re.match(r"(\d+) years", s)
MatchYears(s) ==
    LET e1 == DigitEnd(s, 1)
    IN  e1 > 1 /\ HasLit(s, e1, YEARS)

\* min(x, 99.0) of line 105, 113 and 119.
CapLeaseNoCap(n) == n
CapLease(n) == Min2(n, CapYears * Scale)

ConvertLeaseYearsFirst(lease) ==
    IF IsFloatOrInt(lease) THEN
        IF IsNum(lease) THEN Num(CapLease(Round1(lease.v))) ELSE NaN
    ELSE IF ~IsStr(lease) THEN Raise("TypeError")
    ELSE IF MatchYears(lease.s) THEN
        Num(CapLease(Round1(FullYears(lease.s) * Scale)))
    ELSE None
\* convert_lease(lease): a value or the exception re.match raises on a value
\* that is neither a number nor a string.
ConvertLease(lease) ==
    IF IsFloatOrInt(lease) THEN
        IF IsNum(lease) THEN Num(CapLease(Round1(lease.v))) ELSE NaN
    ELSE IF ~IsStr(lease) THEN Raise("TypeError")
    ELSE IF MatchFull(lease.s) THEN
        Num(CapLease(Round1(FullYears(lease.s) * Scale + FullMonths(lease.s) * 10)))
    ELSE IF MatchYears(lease.s) THEN
        Num(CapLease(Round1(FullYears(lease.s) * Scale)))
    ELSE None

\* Series.apply(f): f on every value in order; the exception of a value that
\* raises leaves the call. The results are then inferred to a dtype: None
\* becomes NaN when a float stands in the results, and the column stays an
\* object column of None when every result is None.
InferObjects(res) ==
    IF \E i \in 1..Len(res) : IsFloatOrInt(res[i])
    THEN [i \in 1..Len(res) |-> IF res[i] = None THEN NaN ELSE res[i]]
    ELSE res

ApplyConvertLease(col) ==
    LET res == [i \in 1..Len(col) |-> ConvertLease(col[i])]
    IN  IF \E i \in 1..Len(res) : IsRaise(res[i])
        THEN Raise("TypeError")
        ELSE [k |-> "col", c |-> InferObjects(res)]

StandardizeRemainingLease ==
    /\ err = "none"
    /\ "remaining_lease" \in Cols(df)
    /\ LET r == ApplyConvertLease(df["remaining_lease"])
       IN  /\ df' = IF IsRaise(r) THEN df ELSE SetCol(df, "remaining_lease", r.c)
           /\ err' = IF IsRaise(r) THEN r.e ELSE "none"
    /\ df0' = df
    /\ last' = "standardize_remaining_lease"
    /\ UNCHANGED <<ret, arg>>

\* ------------------------------------------------ calculate_age_of_flat
\* max(age, 0) of line 194: Python's max keeps its first argument unless a
\* later one compares greater, so a NaN age is returned as it is.
ClampAgeNoClamp(n) == n
ClampAge(n) == Max2(n, 0)

AgeOfFlat(lease) ==
    IF IsNum(lease) THEN Num(ClampAge(FlatLeaseYears * Scale - lease.v))
    ELSE IF lease = NaN THEN NaN
    ELSE Raise("TypeError")

\* calculate_age_of_flat(row) on row i of the table.
CalculateAgeOfFlat ==
    /\ err = "none"
    /\ "remaining_lease" \in Cols(df)
    /\ \E i \in 1..NRows(df) :
        LET r == AgeOfFlat(df["remaining_lease"][i])
        IN  /\ ret' = IF IsRaise(r) THEN None ELSE r
            /\ err' = IF IsRaise(r) THEN r.e ELSE "none"
            /\ arg' = i
    /\ df0' = df
    /\ last' = "calculate_age_of_flat"
    /\ UNCHANGED df

\* ------------------------------------------------ clean_dataset
\* DataFrame.duplicated() compares rows column by column, a missing value
\* being equal to a missing value.
SameValue(a, b) == a = b \/ (IsNull(a) /\ IsNull(b))
SameRow(t, i, j) == \A c \in Cols(t) : SameValue(t[c][i], t[c][j])

\* duplicated(): row i repeats an earlier row.
DuplicatedKeepLast(t, i) == \E j \in (i + 1)..NRows(t) : SameRow(t, i, j)
Duplicated(t, i) == \E j \in 1..(i - 1) : SameRow(t, i, j)

\* The indices of the rows among the first n that are not duplicated, in order.
RECURSIVE KeptUpTo(_, _)
KeptUpTo(t, n) ==
    IF n = 0 THEN <<>>
    ELSE IF Duplicated(t, n) THEN KeptUpTo(t, n - 1)
    ELSE Append(KeptUpTo(t, n - 1), n)

DropDuplicates(t) == TakeRows(t, KeptUpTo(t, NRows(t)))

\* df = clean_dataset(df, name); the printed counts do not reach the table.
CleanDataset ==
    /\ err = "none"
    /\ df' = DropDuplicates(df)
    /\ df0' = df
    /\ last' = "clean_dataset"
    /\ UNCHANGED <<err, ret, arg>>

\* ------------------------------------------------ impute_remaining_lease
\* (99 - years_elapsed - months_fraction).round(1) of one row; a missing
\* commencement year gives a missing result.
ImputeClamped(month, commence) ==
    IF IsNum(commence) /\ month.k = "date"
    THEN Num(Max2(0, Min2(CapYears * Scale,
             Round1(LeaseYears * Scale - (month.y * Scale - commence.v) - month.m * 10))))
    ELSE NaN
ImputeRow(month, commence) ==
    IF IsNum(commence) /\ month.k = "date"
    THEN LET current_year == month.y
             current_month == month.m
             years_elapsed == current_year * Scale - commence.v
             months_fraction == current_month * 10
         IN  Num(Round1(LeaseYears * Scale - years_elapsed - months_fraction))
    ELSE NaN

ImputeRemainingLease ==
    /\ err = "none"
    /\ {"month", "lease_commence_date"} \subseteq Cols(df)
    /\ df' = SetCol(df, "remaining_lease",
                [i \in 1..NRows(df) |->
                    ImputeRow(df["month"][i], df["lease_commence_date"][i])])
    /\ df0' = df
    /\ last' = "impute_remaining_lease"
    /\ UNCHANGED <<err, ret, arg>>

\* ------------------------------------------------ split_storey_range
TO == <<" ", "T", "O", " ">>

\* The first position at or after i where sep stands in s, 0 when there is none.
RECURSIVE FindLit(_, _, _)
FindLit(s, i, sep) ==
    IF i + Len(sep) - 1 > Len(s) THEN 0
    ELSE IF HasLit(s, i, sep) THEN i
    ELSE FindLit(s, i + 1, sep)

\* s.split(sep): the pieces of s between the occurrences of sep, left to right.
RECURSIVE SplitAt(_, _)
SplitAt(s, sep) ==
    LET i == FindLit(s, 1, sep)
    IN  IF i = 0 THEN <<s>>
        ELSE <<SubSeq(s, 1, i - 1)>> \o SplitAt(SubSeq(s, i + Len(sep), Len(s)), sep)

\* The row of a value under .str.split(' TO ', expand=True): the pieces of a
\* string, and a single missing value otherwise.
SplitRow(x) == IF IsStr(x) THEN [i \in 1..Len(SplitAt(x.s, TO)) |-> Str(SplitAt(x.s, TO)[i])]
               ELSE <<NaN>>

RECURSIVE MaxLen(_, _)
MaxLen(rows, n) == IF n = 0 THEN 0 ELSE Max2(Len(rows[n]), MaxLen(rows, n - 1))

\* The cell of column j of the expanded frame: rows with fewer pieces are
\* padded with None, and a missing value is missing in every column.
Expanded(row, j) ==
    IF row = <<NaN>> THEN NaN
    ELSE IF j <= Len(row) THEN row[j]
    ELSE None

\* pd.to_numeric(x, errors='coerce') of a cell whose string, if any, is made
\* of digits, letters and inner spaces: the number of a string of digits,
\* and a missing value for everything else.
ToNumeric(x) ==
    IF IsStr(x) /\ x.s # <<>> /\ (\A i \in 1..Len(x.s) : x.s[i] \in Digits)
    THEN Num(ParseInt(x.s) * Scale)
    ELSE NaN

\* The two columns of line 155..159, or the exception of the assignment of a
\* frame that has not exactly two columns to the two new columns.
SplitColumnsSorted(col) ==
    LET rows == [i \in 1..Len(col) |-> SplitRow(col[i])]
        lo(i) == ToNumeric(Expanded(rows[i], 1))
        up(i) == ToNumeric(Expanded(rows[i], 2))
        swap(i) == IsNum(lo(i)) /\ IsNum(up(i)) /\ lo(i).v > up(i).v
    IN  IF MaxLen(rows, Len(rows)) # 2 THEN Raise("ValueError")
        ELSE [k |-> "cols",
              lower |-> [i \in 1..Len(col) |-> IF swap(i) THEN up(i) ELSE lo(i)],
              upper |-> [i \in 1..Len(col) |-> IF swap(i) THEN lo(i) ELSE up(i)]]
SplitColumns(col) ==
    LET rows == [i \in 1..Len(col) |-> SplitRow(col[i])]
    IN  IF MaxLen(rows, Len(rows)) # 2 THEN Raise("ValueError")
        ELSE [k |-> "cols",
              lower |-> [i \in 1..Len(col) |-> ToNumeric(Expanded(rows[i], 1))],
              upper |-> [i \in 1..Len(col) |-> ToNumeric(Expanded(rows[i], 2))]]

SplitStoreyRange ==
    /\ err = "none"
    /\ "storey_range" \in Cols(df)
    /\ LET r == SplitColumns(df["storey_range"])
       IN  /\ df' = IF IsRaise(r) THEN df
                    ELSE SetCol(SetCol(df, "lower_storey", r.lower), "upper_storey", r.upper)
           /\ err' = IF IsRaise(r) THEN r.e ELSE "none"
    /\ df0' = df
    /\ last' = "split_storey_range"
    /\ UNCHANGED <<ret, arg>>

\* ------------------------------------------------ add_max_storey
GroupKeys == {"town", "block", "street_name"}

\* groupby(...) leaves out the rows that have a missing value in a key.
HasKey(t, i) == \A c \in GroupKeys : ~IsNull(t[c][i])
SameGroupTownOnly(t, i, j) == HasKey(t, i) /\ HasKey(t, j) /\ t["town"][i] = t["town"][j]
SameGroup(t, i, j) ==
    /\ HasKey(t, i)
    /\ HasKey(t, j)
    /\ \A c \in GroupKeys : t[c][i] = t[c][j]

\* The upper_storey values of the group of row i that are not missing.
GroupUppers(t, i) ==
    {t["upper_storey"][j].v : j \in {j \in 1..NRows(t) :
        SameGroup(t, i, j) /\ IsNum(t["upper_storey"][j])}}

SetMax(S) == CHOOSE x \in S : \A y \in S : y <= x

\* transform('max'): the maximum of the group at every row of it, missing
\* values skipped; missing when the group has no value or the row no group.
MaxStorey(t, i) ==
    IF GroupUppers(t, i) = {} THEN NaN ELSE Num(SetMax(GroupUppers(t, i)))

AddMaxStorey ==
    /\ err = "none"
    /\ GroupKeys \cup {"upper_storey"} \subseteq Cols(df)
    /\ df' = SetCol(df, "max_storey", [i \in 1..NRows(df) |-> MaxStorey(df, i)])
    /\ df0' = df
    /\ last' = "add_max_storey"
    /\ UNCHANGED <<err, ret, arg>>

\* ------------------------------------------------------------- inputs
\* Strings of the remaining_lease column.
D(a) == <<a>>
D2(a, b) == <<a, b>>
LeaseOf(y) == y \o YEARS
LeaseOfM(y, m) == y \o YEARS_SP \o m \o MONTHS
LeaseStrings ==
    { LeaseOfM(D2("1", "0"), D("6")),          \* "10 years 6 months"
      LeaseOfM(D("5"), D("3")),                \* "5 years 3 months"
      LeaseOfM(D("5"), D("9")),                \* "5 years 9 months"
      LeaseOfM(D2("0", "7"), D2("0", "1")),    \* "07 years 01 months"
      LeaseOfM(D2("9", "8"), D2("1", "5")),    \* "98 years 15 months"
      LeaseOfM(D2("1", "0"), D("6")) \o <<"!">>,  \* "10 years 6 months!"
      LeaseOf(D2("9", "9")),                   \* "99 years"
      LeaseOf(<<"1", "5", "0">>),              \* "150 years"
      LeaseOf(D("0")),                         \* "0 years"
      LeaseOf(D2("1", "0")) \o <<" ", "6", " ", "m", "o", "n", "t", "h">>,
                                               \* "10 years 6 month"
      <<" ">> \o LeaseOf(D2("1", "0")),        \* " 10 years"
      YEARS,                                   \* " years"
      <<"1", "0", " ", "y", "e", "a", "r">>,   \* "10 year"
      <<"g", "a", "r", "b", "a", "g", "e">>,   \* "garbage"
      <<>> }                                   \* ""

\* Numbers of the remaining_lease column, in eighths: 150, 105, 99.125, 99, 10.25,
\* 10.375, 10.125, 10.75, 0, -0.25 and -5.
LeaseNumbers ==
    { 15 * e : e \in {1200, 840, 793, 792, 82, 83, 81, 86, 0, -2, -40} }

LeaseValues ==
    {Str(s) : s \in LeaseStrings} \cup {Num(n) : n \in LeaseNumbers}
        \cup {NaN, None, Date(2020, 1)}

LeaseTable ==
    \E n \in 0..MaxRows : \E c \in [1..n -> LeaseValues] :
        df = [remaining_lease |-> c]

\* Tables of month and lease_commence_date.
Months == {Date(y, m) : y \in {1990, 2020, 2100}, m \in {1, 3, 9, 12}}
CommenceYears == {Num(1995 * Scale), NaN}
ImputeTable ==
    \E n \in 0..MaxRows : \E r \in [1..n -> Months \X CommenceYears] :
        df = [month |-> [i \in 1..n |-> r[i][1]],
              lease_commence_date |-> [i \in 1..n |-> r[i][2]]]

\* Strings of the storey_range column.
StoreyStrings ==
    { <<"0", "4">> \o TO \o <<"0", "6">>,                  \* "04 TO 06"
      <<"1", "0">> \o TO \o <<"0", "7">>,                  \* "10 TO 07"
      <<"0", "1">> \o TO \o <<"0", "3">> \o TO \o <<"0", "5">>,  \* "01 TO 03 TO 05"
      <<"0", "4">> \o TO \o <<"b", "a", "d">>,             \* "04 TO bad"
      TO \o <<"0", "6">>,                                  \* " TO 06"
      <<"0", "4", " ", "t", "o", " ", "0", "6">>,          \* "04 to 06"
      <<"0", "7">>,                                        \* "07"
      <<"b", "a", "d">> }                                  \* "bad"
StoreyValues == {Str(s) : s \in StoreyStrings} \cup {NaN}
\* storey_range is a column of strings: at least one row holds a string.
StoreyTable ==
    \E n \in 1..MaxGroupRows : \E c \in [1..n -> StoreyValues] :
        /\ \E i \in 1..n : IsStr(c[i])
        /\ df = [storey_range |-> c]

\* Tables of the group keys and upper_storey.
T1 == Str(<<"T", "1">>)
T2 == Str(<<"T", "2">>)
B1 == Str(<<"B", "1">>)
B2 == Str(<<"B", "2">>)
S1 == Str(<<"S", "1">>)
S2 == Str(<<"S", "2">>)
BuildingKeys ==
    { <<T1, B1, S1>>, <<T2, B1, S1>>, <<T1, B2, S1>>, <<T1, B1, S2>>,
      <<NaN, B1, S1>>, <<T1, B1, NaN>> }
UpperValues == {Num(5 * Scale), Num(9 * Scale), NaN}
BuildingTable ==
    \E n \in 0..MaxGroupRows : \E r \in [1..n -> BuildingKeys \X UpperValues] :
        df = [town |-> [i \in 1..n |-> r[i][1][1]],
              block |-> [i \in 1..n |-> r[i][1][2]],
              street_name |-> [i \in 1..n |-> r[i][1][3]],
              upper_storey |-> [i \in 1..n |-> r[i][2]]]

Init ==
    /\ \/ LeaseTable
       \/ ImputeTable
       \/ StoreyTable
       \/ BuildingTable
    /\ df0 = df
    /\ last = "init"
    /\ err = "none"
    /\ ret = None
    /\ arg = 0

Next ==
    \/ CleanDataset
    \/ ImputeRemainingLease
    \/ StandardizeRemainingLease
    \/ SplitStoreyRange
    \/ AddMaxStorey
    \/ CalculateAgeOfFlat

Spec == Init /\ [][Next]_vars

\* ============================================================== claims
Cap == CapYears * Scale
In(i) == df0["remaining_lease"][i]
Out(i) == df["remaining_lease"][i]
Standardized == last = "standardize_remaining_lease"
Returned == err = "none"

\* ---- C1: clean_dataset returns a table with no two rows equal on all
\* columns (a missing value being equal to a missing value), whose rows are
\* rows of the input, that has at most as many rows, and that holds exactly
\* the first occurrence of each distinct row of the input, in the input's order.
FirstRows(t) == {i \in 1..NRows(t) : \A j \in 1..(i - 1) : ~SameRow(t, i, j)}
Nth(S, n) == CHOOSE i \in S : Cardinality({j \in S : j <= i}) = n
C1_CleanKeepsFirstOccurrences ==
    last = "clean_dataset" =>
        /\ Cols(df) = Cols(df0)
        /\ \A i, j \in 1..NRows(df) : i # j => ~SameRow(df, i, j)
        /\ \A i \in 1..NRows(df) : \E j \in 1..NRows(df0) : Row(df, i) = Row(df0, j)
        /\ NRows(df) <= NRows(df0)
        /\ NRows(df) = Cardinality(FirstRows(df0))
        /\ \A n \in 1..NRows(df) : Row(df, n) = Row(df0, Nth(FirstRows(df0), n))
C1_Witness ==
    /\ last = "clean_dataset"
    /\ NRows(df0) = 3
    /\ NRows(df) = 2
    /\ SameRow(df0, 1, 3)

\* ---- C2: standardize_remaining_lease converts in priority order: a number
\* v to min(round(v, 1), 99.0); else a string "N years M months" to
\* min(round(N + M/12, 1), 99.0); else a string "N years" to
\* min(round(N, 1), 99.0). "10 years 6 months" gives 10.5, "99 years" gives
\* 99.0 and 150 gives 99.0.
C2_Expected(x) ==
    IF IsNum(x) THEN Min2(Round1(x.v), Cap)
    ELSE IF MatchFull(x.s)
    THEN Min2(Round1(FullYears(x.s) * Scale + FullMonths(x.s) * 10), Cap)
    ELSE Min2(Round1(FullYears(x.s) * Scale), Cap)
C2_ConvertsInPriorityOrder ==
    (Standardized /\ Returned) =>
        \A i \in 1..NRows(df) :
            /\ (IsNum(In(i)) \/ (IsStr(In(i)) /\ MatchYears(In(i).s)))
                   => Out(i) = Num(C2_Expected(In(i)))
            /\ In(i) = Str(LeaseOfM(<<"1", "0">>, <<"6">>))
                   => Out(i) = Num(10 * Scale + Scale \div 2)
            /\ In(i) = Str(LeaseOfM(<<"5">>, <<"9">>))
                   => Out(i) = Num(5 * Scale + 8 * (Scale \div 10))
            /\ In(i) = Str(LeaseOf(<<"9", "9">>)) => Out(i) = Num(99 * Scale)
            /\ In(i) = Num(150 * Scale) => Out(i) = Num(99 * Scale)
C2_Witness ==
    /\ Standardized
    /\ Returned
    /\ NRows(df) = 2
    /\ In(1) = Str(LeaseOfM(<<"1", "0">>, <<"6">>))
    /\ Out(1) = Num(10 * Scale + Scale \div 2)
    /\ In(2) = Str(LeaseOf(<<"9", "9">>))

\* ---- C3: a remaining_lease value that is neither a number nor a string in
\* one of the two lease forms (any other string, a missing value, a value of
\* any other kind) becomes a missing value, and the call never fails.
C3_UnparseableBecomesMissing ==
    Standardized =>
        /\ Returned
        /\ \A i \in 1..NRows(df) :
               ~(IsNum(In(i)) \/ (IsStr(In(i)) /\ MatchYears(In(i).s)))
                   => IsNull(Out(i))

\* ---- C4: standardize_remaining_lease is idempotent: applied to the table
\* a first application returned, it succeeds and changes no value.
C4_Idempotent ==
    [][(Standardized /\ Returned /\ last' = "standardize_remaining_lease")
            => (err' = "none" /\ df' = df)]_vars

\* ---- C7: calculate_age_of_flat returns max(99 - remaining_lease, 0) for a
\* row whose remaining_lease is a number: never negative, 0 from 99 on (105
\* gives 0), and no error; a NaN remaining_lease gives NaN, without an error.
AgeIn == df["remaining_lease"][arg]
C7_AgeIsClamped ==
    (last = "calculate_age_of_flat" /\ IsFloatOrInt(AgeIn)) =>
        /\ Returned
        /\ IsNum(AgeIn) =>
            /\ IsNum(ret)
            /\ ret.v >= 0
            /\ ret.v >= 99 * Scale - AgeIn.v
            /\ ret.v \in {0, 99 * Scale - AgeIn.v}
            /\ AgeIn.v >= 99 * Scale => ret.v = 0
        /\ AgeIn = NaN => ret = NaN
C7_Witness ==
    /\ last = "calculate_age_of_flat"
    /\ AgeIn = Num(105 * Scale)
    /\ ret = Num(0)
    /\ Returned

\* ---- C9 as stated: every non-missing value standardize_remaining_lease
\* writes lies in [0.0, 99.0], negative numeric inputs included.
C9_AlwaysInRange ==
    (Standardized /\ Returned) =>
        \A i \in 1..NRows(df) : IsNum(Out(i)) => (0 <= Out(i).v /\ Out(i).v <= Cap)
\* ---- C9 amended: every non-missing value written is at most 99.0, and is
\* at least 0.0 when the input is a string in either lease form or a number
\* that is not negative; a negative number is rounded and stays below 0.0
\* when it rounds to a tenth other than zero.
C9_CappedAbove ==
    (Standardized /\ Returned) =>
        \A i \in 1..NRows(df) : IsNum(Out(i)) =>
            /\ Out(i).v <= Cap
            /\ (IsStr(In(i)) \/ In(i).v >= 0) => Out(i).v >= 0
            /\ (IsNum(In(i)) /\ In(i).v <= -12) => Out(i).v < 0
C9_Witness ==
    /\ Standardized
    /\ Returned
    /\ \E i \in 1..NRows(df) : IsNum(In(i)) /\ In(i).v > Cap /\ Out(i) = Num(Cap)
    /\ \E i \in 1..NRows(df) : IsNum(In(i)) /\ In(i).v < 0 /\ Out(i).v < 0

\* ---- C5: split_storey_range turns "L TO U" into the numbers L and U, makes
\* every component that cannot be parsed a missing value in its row only,
\* both components of a value with no " TO " or with more than one included,
\* and never fails.
Pieces(i) == SplitAt(df0["storey_range"][i].s, TO)
IsRange(i) ==
    /\ IsStr(df0["storey_range"][i])
    /\ Len(Pieces(i)) = 2
Parsed(c) == c # <<>> /\ \A k \in 1..Len(c) : c[k] \in Digits
Split == last = "split_storey_range"
C5_SplitNeverFails ==
    Split =>
        /\ Returned
        /\ \A i \in 1..NRows(df) :
            IF IsRange(i)
            THEN /\ df["lower_storey"][i] =
                        IF Parsed(Pieces(i)[1]) THEN Num(ParseInt(Pieces(i)[1]) * Scale) ELSE NaN
                 /\ df["upper_storey"][i] =
                        IF Parsed(Pieces(i)[2]) THEN Num(ParseInt(Pieces(i)[2]) * Scale) ELSE NaN
            ELSE df["lower_storey"][i] = NaN /\ df["upper_storey"][i] = NaN

\* ---- C10 as stated: after split_storey_range every row with both storeys
\* present has lower_storey <= upper_storey, also when written with L > U.
C10_LowerAtMostUpper ==
    (Split /\ Returned) =>
        \A i \in 1..NRows(df) :
            (IsNum(df["lower_storey"][i]) /\ IsNum(df["upper_storey"][i]))
                => df["lower_storey"][i].v <= df["upper_storey"][i].v
\* ---- C10 amended: after split_storey_range has returned, a row "L TO U"
\* has lower_storey = L and upper_storey = U in the order written, so that
\* lower_storey <= upper_storey exactly when L <= U.
C10_KeepsWrittenOrder ==
    (Split /\ Returned) =>
        \A i \in 1..NRows(df) :
            (IsRange(i) /\ Parsed(Pieces(i)[1]) /\ Parsed(Pieces(i)[2])) =>
                /\ df["lower_storey"][i] = Num(ParseInt(Pieces(i)[1]) * Scale)
                /\ df["upper_storey"][i] = Num(ParseInt(Pieces(i)[2]) * Scale)
                /\ (df["lower_storey"][i].v <= df["upper_storey"][i].v)
                       <=> (ParseInt(Pieces(i)[1]) <= ParseInt(Pieces(i)[2]))
C10_Witness ==
    /\ Split
    /\ Returned
    /\ \E i \in 1..NRows(df) :
        /\ df0["storey_range"][i] = Str(<<"1", "0">> \o TO \o <<"0", "7">>)
        /\ df["lower_storey"][i] = Num(10 * Scale)
        /\ df["upper_storey"][i] = Num(7 * Scale)
    /\ \E i \in 1..NRows(df) :
        /\ df0["storey_range"][i] = Str(<<"0", "4">> \o TO \o <<"0", "6">>)
        /\ df["lower_storey"][i] = Num(4 * Scale)
        /\ df["upper_storey"][i] = Num(6 * Scale)

\* ---- C6 as stated: after add_max_storey every row has max_storey equal to
\* the maximum of the non-missing upper_storey values of the rows with the
\* same (town, block, street_name), missing exactly when they are all missing.
SameTriple(i, j) == \A c \in GroupKeys : df0[c][i] = df0[c][j]
TripleUppers(i) ==
    {df0["upper_storey"][j].v : j \in {j \in 1..NRows(df0) :
        SameTriple(i, j) /\ IsNum(df0["upper_storey"][j])}}
IsMaxOf(x, S) ==
    IF S = {} THEN x = NaN
    ELSE IsNum(x) /\ x.v \in S /\ \A y \in S : y <= x.v
MaxAdded == last = "add_max_storey"
C6_EveryRowGetsGroupMax ==
    MaxAdded => \A i \in 1..NRows(df) : IsMaxOf(df["max_storey"][i], TripleUppers(i))
\* ---- C6 amended: after add_max_storey every row whose town, block and
\* street_name are all present has max_storey equal to the maximum of the
\* non-missing upper_storey values of the rows with the same triple: the
\* rows of a group carry one value, a single-row group its own upper_storey,
\* a row with a missing upper_storey its group's maximum, and the value is
\* missing exactly when every upper_storey of the group is missing.
KeyPresent(i) == \A c \in GroupKeys : ~IsNull(df0[c][i])
C6_KeyedRowsGetGroupMax ==
    MaxAdded =>
        /\ NRows(df) = NRows(df0)
        /\ \A i \in 1..NRows(df) : KeyPresent(i) =>
            /\ IsMaxOf(df["max_storey"][i], TripleUppers(i))
            /\ \A j \in 1..NRows(df) : SameTriple(i, j) => df["max_storey"][j] = df["max_storey"][i]
            /\ (\A j \in 1..NRows(df) : SameTriple(i, j) => j = i)
                   => df["max_storey"][i] = df0["upper_storey"][i]
C6_Witness ==
    /\ MaxAdded
    /\ NRows(df) = 3
    /\ \A i \in 1..3 : KeyPresent(i) /\ SameTriple(1, i)
    /\ df0["upper_storey"] = <<Num(5 * Scale), Num(9 * Scale), NaN>>
    /\ \A i \in 1..3 : df["max_storey"][i] = Num(9 * Scale)

\* ---- C8: impute_remaining_lease writes round(99 - (year of month -
\* lease_commence_date) - (month number)/12, 1) without clamping: the value is
\* below 0 or above 99 whenever the formula gives such a value.
Exact(i) ==
    LeaseYears * Scale - (df0["month"][i].y * Scale - df0["lease_commence_date"][i].v)
        - df0["month"][i].m * 10
Abs(n) == IF n < 0 THEN -n ELSE n
C8_ImputeIsNotClamped ==
    last = "impute_remaining_lease" =>
        \A i \in 1..NRows(df) : IsNum(df0["lease_commence_date"][i]) =>
            /\ IsNum(Out(i))
            /\ Out(i).v % 12 = 0
            /\ Abs(Out(i).v - Exact(i)) <= 6
            /\ Exact(i) < -6 => Out(i).v < 0
            /\ Exact(i) > 99 * Scale + 6 => Out(i).v > 99 * Scale
C8_Witness ==
    /\ last = "impute_remaining_lease"
    /\ NRows(df) = 2
    /\ IsNum(Out(1)) /\ Out(1).v < 0
    /\ IsNum(Out(2)) /\ Out(2).v > 99 * Scale

====
